---- MODULE Spec2Model ----
(***************************************************************************)
(* The Cosmos DB MCP servers of this repository: the Java server           *)
(* (CosmosDBMcpServer, src/unnamed/part_000) and the TypeScript server     *)
(* (src/javascript/src/index.ts).  Both expose get_item, put_item,         *)
(* update_item and query_container over one container of a partitioned     *)
(* document store.  The store is the environment: a set of documents, each *)
(* identified by (id, partition key value).                                *)
(***************************************************************************)
EXTENDS Naturals, Sequences, FiniteSets, TLC

VARIABLES
    impl,      \* which server is running: "java" or "ts"
    pkPath,    \* the container's partition key path (the field it names)
    env,       \* the environment variables that are set
    phase,     \* "boot", "checked", "serving" or "exited"
    client,    \* TRUE once the store client has been created
    store,     \* the container: a set of documents
    inflight,  \* update_item calls between their point read and their replace
    last,      \* the call that returned most recently
    ncalls,    \* tool calls started so far
    nuuid,     \* ids generated so far
    mD, mP, mQ,              \* merge laws: a document and two patches
    mDP, mDPQ, mPQ, mAll,    \* merge laws: the intermediate and final merges
    mpc                      \* merge laws: how many merges have been computed

sysvars == <<impl, pkPath, env, phase, client, store, inflight, last, ncalls, nuuid>>
mvars == <<mD, mP, mQ, mDP, mDPQ, mPQ, mAll, mpc>>
vars == <<impl, pkPath, env, phase, client, store, inflight, last, ncalls, nuuid,
          mD, mP, mQ, mDP, mDPQ, mPQ, mAll, mpc>>

-----------------------------------------------------------------------------
(* JSON values, tagged by kind.  An object's v is a function from field    *)
(* names to values; a document is such a function.                         *)

Str(x) == [k |-> "s", v |-> x]
Num(x) == [k |-> "num", v |-> x]
Arr(x) == [k |-> "a", v |-> x]
Obj(f) == [k |-> "o", v |-> f]
Null == [k |-> "null", v |-> ""]
\* a key the argument map does not hold / a JavaScript undefined
Absent == [k |-> "absent", v |-> ""]

EmptyObj == [n \in {} |-> Null]

\* the partial functions from Names to Vals
PartialFns(Names, Vals) == UNION {[D -> Vals] : D \in SUBSET Names}

Impls == {"java", "ts"}

-----------------------------------------------------------------------------
(* The merge engines.                                                      *)

\* two faulty merges, against which the merge properties are tried: one keeps
\* the target's value where both sides hold a field, one forgets the target
RECURSIVE DeepMergeLeftBiased(_, _)
DeepMergeLeftBiased(target, updates) ==
    [f \in DOMAIN target \cup DOMAIN updates |->
        IF f \notin DOMAIN updates THEN target[f]
        ELSE IF f \notin DOMAIN target THEN updates[f]
        ELSE IF updates[f].k = "o" /\ target[f].k = "o"
             THEN Obj(DeepMergeLeftBiased(target[f].v, updates[f].v))
             ELSE target[f]]

DeepMergeDropsTarget(target, updates) == updates

\* deepMerge(target, updates): for each field of updates, recurse when both
\* sides hold an object, else set the field to the update's value
RECURSIVE DeepMerge(_, _)
DeepMerge(target, updates) ==
    [f \in DOMAIN target \cup DOMAIN updates |->
        IF f \notin DOMAIN updates THEN target[f]
        ELSE IF updates[f].k = "o" /\ f \in DOMAIN target /\ target[f].k = "o"
             THEN Obj(DeepMerge(target[f].v, updates[f].v))
             ELSE updates[f]]

\* { ...resource, ...updates }: the fields of updates over those of resource
SpreadMerge(resource, updates) ==
    [f \in DOMAIN resource \cup DOMAIN updates |->
        IF f \in DOMAIN updates THEN updates[f] ELSE resource[f]]

\* the merge update_item applies, per server
Merge(i, target, updates) ==
    IF i = "java" THEN DeepMerge(target, updates) ELSE SpreadMerge(target, updates)

-----------------------------------------------------------------------------
(* Bounds of the model and the inputs the calls draw from.                 *)

MaxCalls == 2       \* tool calls per run, well-formed arguments
MaxAnyCalls == 1    \* tool calls per run, arbitrary arguments
MaxUuid == 1        \* ids generated per run
MaxSeed == 1        \* documents in the container when the server starts
MaxScalar == 2      \* scalar values in the merge-law documents

ScalarNames == <<"1", "2", "3", "4">>
UuidNames == <<"u1", "u2", "u3">>
Uuid(n) == Str(UuidNames[n])

ContainerC == Str("c")
EnvVars == {"COSMOSDB_URI", "COSMOSDB_KEY", "COSMOS_DATABASE_ID", "COSMOS_CONTAINER_ID"}
EnvChoices == {EnvVars} \cup {EnvVars \ {x} : x \in EnvVars}
PkPaths == {"id", "category"}

NestedA == Obj([a |-> Str("1")])
NestedB == Obj([b |-> Str("2")])

\* documents over the fields id, category and nested, each optional
DocsOver(fields) ==
    {d \in PartialFns(fields, {Str("i1"), Str("c1"), NestedA}) :
        /\ "id" \in DOMAIN d => d["id"] = Str("i1")
        /\ "category" \in DOMAIN d => d["category"] = Str("c1")
        /\ "nested" \in DOMAIN d => d["nested"] = NestedA}
\* the documents a client may put, and those the container may hold at startup
ItemDocs == DocsOver({"id", "category"})
SeedDocs == {d \in DocsOver({"id", "category", "nested"}) : "id" \in DOMAIN d}

Patches == {EmptyObj, [nested |-> NestedA], [nested |-> NestedB],
            [nested |-> Str("1")], [category |-> Str("c1")]}

\* the ids a client can name: one of its own choosing, and those generated so far
Ids == {Str("i1")} \cup {Uuid(n) : n \in 1..nuuid}
BadArgs == {Absent, Num("5"), Str(" ")}
QAll == Str("SELECT * FROM c")
QNone == Str("SELECT * FROM c WHERE c.id = 'nobody'")
Queries == {QAll, QNone}

NoArgs == [op |-> "", containerName |-> Absent, id |-> Absent, partitionKey |-> Absent,
           item |-> Absent, updates |-> Absent, query |-> Absent]

GetCalls(cns, ids, pks) ==
    {[NoArgs EXCEPT !.op = "get_item", !.containerName = c, !.id = i, !.partitionKey = p] :
        c \in cns, i \in ids, p \in pks}
PutCalls(cns, items) ==
    {[NoArgs EXCEPT !.op = "put_item", !.containerName = c, !.item = it] :
        c \in cns, it \in items}
UpdateCalls(cns, ids, pks, upds) ==
    {[NoArgs EXCEPT !.op = "update_item", !.containerName = c, !.id = i,
                    !.partitionKey = p, !.updates = u] :
        c \in cns, i \in ids, p \in pks, u \in upds}
QueryCalls(cns, qs) ==
    {[NoArgs EXCEPT !.op = "query_container", !.containerName = c, !.query = q] :
        c \in cns, q \in qs}

\* calls that satisfy the tools' input schemas
PkArgs == {Absent, Str("c1")}
ValidGets == GetCalls({ContainerC}, Ids, PkArgs)
ValidPuts == PutCalls({ContainerC}, {Obj(d) : d \in ItemDocs})
ValidUpdates == UpdateCalls({ContainerC}, Ids, PkArgs, {Obj(p) : p \in Patches})
ValidQueries == QueryCalls({ContainerC}, Queries)

\* calls with any argument possibly absent, of the wrong type or blank
AnyCN == {ContainerC} \cup BadArgs
AnyId == {Str("i1")} \cup BadArgs
\* and calls, otherwise well-formed, in which one argument is null
AnyGets == GetCalls(AnyCN, AnyId, {Absent}) \cup GetCalls({ContainerC}, {Str("i1")}, {Null})
AnyPuts ==
    PutCalls(AnyCN, {Obj([id |-> Str("i1")]), Obj(EmptyObj), Absent, Num("5")})
        \cup PutCalls({ContainerC}, {Null})
AnyUpdates ==
    UpdateCalls(AnyCN, AnyId, {Absent},
                {Obj(EmptyObj), Obj([nested |-> NestedB]), Absent, Num("5")})
        \cup UpdateCalls({ContainerC}, {Str("i1")}, {Absent, Null}, {Obj(EmptyObj), Null})
AnyQueries == QueryCalls(AnyCN, {QAll} \cup BadArgs) \cup QueryCalls({Null}, {QAll})

\* how the store behaves during one store call: it works and reports a missing
\* document as an empty read result or as a 404 fault, or it fails
ReadModes == {"empty", "fault404", "fault"}
\* during a write or a query: it works or it fails
WriteModes == {"ok", "fault"}

-----------------------------------------------------------------------------
(* The store: one container, named "c", of documents identified by         *)
(* (id, partition key value).                                              *)

\* the partition key value of a document: the value at the container's
\* partition key path, or none when the document has no such field
PkOf(d) == IF pkPath \in DOMAIN d THEN d[pkPath] ELSE Absent

Stored(s, id, pk) == {d \in s : d["id"] = id /\ PkOf(d) = pk}

KeysUnique(s) == \A d, e \in s : (d["id"] = e["id"] /\ PkOf(d) = PkOf(e)) => d = e

\* point read of (id, pk): the document as an object, or Absent
StoreRead(cn, id, pk) ==
    IF cn = ContainerC /\ Stored(store, id, pk) # {}
    THEN Obj(CHOOSE d \in Stored(store, id, pk) : TRUE)
    ELSE Absent

\* a document the store accepts: its id is a non-blank string
Storable(d) == "id" \in DOMAIN d /\ d["id"].k = "s" /\ d["id"] # Str(" ")

\* upsert: insert the document, or replace the one with its id and partition key
StoreUpsert(d) == (store \ Stored(store, d["id"], PkOf(d))) \cup {d}

\* replace of (id, pk) by d is accepted when that document exists and d keeps
\* its id and its partition key value
ReplaceOk(cn, id, pk, d) ==
    /\ cn = ContainerC
    /\ Stored(store, id, pk) # {}
    /\ Storable(d) /\ d["id"] = id /\ PkOf(d) = pk

StoreReplace(id, pk, d) == (store \ Stored(store, id, pk)) \cup {d}

\* the sequences that list each element of the set s once
Orderings(s) ==
    {q \in [1..Cardinality(s) -> s] : \A i, j \in 1..Cardinality(s) : q[i] = q[j] => i = j}

Matches(q, d) == q = QAll

\* the result rows of a query, in an order the store chooses
QueryRows(q) == Orderings({Obj(d) : d \in {e \in store : Matches(q, e)}})

FaultMsg == "Service unavailable"
ConflictMsg == "Conflict"
BadRequestMsg == "Bad request"
NotFoundMsg == "Not found"

-----------------------------------------------------------------------------
(* Tool results.                                                           *)

Text(parts) == [k |-> "text", v |-> parts]
Rows(seq) == [k |-> "rows", v |-> seq]

\* new McpSchema.CallToolResult(text, isError)
JavaResult(payload, isError) ==
    [isError |-> IF isError THEN "true" ELSE "false", payload |-> payload]

ItemNotFound == JavaResult(Text(<<"Error: Item not found">>), TRUE)
JavaError(parts) == JavaResult(Text(<<"Error: ">> \o parts), TRUE)

\* an exception that left the handler: no result was built
Escaped(cls) == [isError |-> "absent", payload |-> [k |-> "thrown", v |-> cls]]

\* the unchecked exception classes the handlers can meet
RuntimeExceptions == {"CosmosException", "IllegalArgumentException", "NullPointerException"}

\* a faulty set of catch clauses, against which the handlers' containment of
\* faults is tried: the final catch (RuntimeException re) is missing
JavaCatchesNamedOnly(op) ==
    CASE op = "get_item" ->
            {"CosmosException", "JsonProcessingException", "IllegalArgumentException"}
      [] op = "put_item" -> {"CosmosException", "IllegalArgumentException", "NullPointerException"}
      [] op = "update_item" ->
            {"CosmosException", "IllegalArgumentException", "NullPointerException",
             "JsonProcessingException"}
      [] OTHER -> {"CosmosException", "IllegalArgumentException", "JsonProcessingException"}

\* the exception classes named by the catch clauses of a tool's handler
JavaCatches(op) ==
    CASE op = "get_item" ->
            {"CosmosException", "JsonProcessingException", "IllegalArgumentException",
             "RuntimeException"}
      [] op = "put_item" ->
            {"CosmosException", "IllegalArgumentException", "NullPointerException",
             "RuntimeException"}
      [] op = "update_item" ->
            {"CosmosException", "IllegalArgumentException", "NullPointerException",
             "JsonProcessingException", "RuntimeException"}
      [] OTHER ->
            {"CosmosException", "IllegalArgumentException", "JsonProcessingException",
             "RuntimeException"}

\* an exception of class cls thrown inside the try block of a handler: the
\* matching catch clause returns "Error: " + message with isError true
JavaCatch(op, cls, parts) ==
    IF \/ cls \in JavaCatches(op)
       \/ cls \in RuntimeExceptions /\ "RuntimeException" \in JavaCatches(op)
    THEN JavaError(parts)
    ELSE Escaped(cls)

\* argsMap.getOrDefault("partitionKey", id) is null: toString() throws
JavaNullKey(op) == JavaCatch(op, "NullPointerException", <<"null">>)

\* a store call threw a CosmosException with this message
JavaStoreFault(op, msg) == JavaCatch(op, "CosmosException", <<msg>>)

\* the object a TypeScript operation returns: { success, message, item | items }
Envelope(success, message, data) ==
    [k |-> "env", v |-> [success |-> success, message |-> message, data |-> data]]

\* the dispatcher's return of JSON.stringify(result): no isError member
TsResult(envelope) == [isError |-> "absent", payload |-> envelope]

\* a handler's outcome: the result, the store calls it issued, the document it
\* read and the one it wrote (Absent when none), the container afterwards and
\* whether it consumed a generated id
Outcome(res, ops, read, written, newStore, gen) ==
    [res |-> res, ops |-> ops, read |-> read, written |-> written,
     store |-> newStore, gen |-> gen]

NoStoreCall(res) == Outcome(res, <<>>, Absent, Absent, store, FALSE)

\* the document d with its id field set to v
WithId(d, v) == [f \in DOMAIN d \cup {"id"} |-> IF f = "id" THEN v ELSE d[f]]

-----------------------------------------------------------------------------
(* The Java server's tools.                                                *)

IsBlank(v) == v.v \in {"", " "}

\* requireStringArg(map, key): the string, or the IllegalArgumentException
RequireStringArg(a, key) ==
    LET v == a[key]
        Thrown(msg) == [ok |-> FALSE, exc |-> "IllegalArgumentException", val |-> v, msg |-> msg]
    IN  IF v.k \in {"absent", "null"} THEN Thrown(<<key, " is required">>)
        ELSE IF v.k # "s" THEN Thrown(<<key, " must be a string">>)
        ELSE IF IsBlank(v) THEN Thrown(<<key, " cannot be blank">>)
        ELSE [ok |-> TRUE, exc |-> "", val |-> v, msg |-> <<>>]

\* a faulty default, against which the round trip of put_item and get_item
\* is tried: the container's name instead of the id
PkValueDefaultsToContainer(a, id) ==
    IF a.partitionKey.k = "absent" THEN a.containerName ELSE Str(a.partitionKey.v)

\* argsMap.getOrDefault("partitionKey", id).toString()
PkValue(a, id) == IF a.partitionKey.k = "absent" THEN id ELSE Str(a.partitionKey.v)

\* Objects.requireNonNull(argsMap.get(key), ...) then mapper.convertValue(.., ObjectNode.class)
RequireObjectArg(a, key) ==
    LET v == a[key] IN
    IF v.k \in {"absent", "null"}
    THEN [ok |-> FALSE, exc |-> "NullPointerException", val |-> v,
          msg |-> <<key, " is required">>]
    ELSE IF v.k # "o"
    THEN [ok |-> FALSE, exc |-> "IllegalArgumentException", val |-> v,
          msg |-> <<"Cannot convert to ObjectNode">>]
    ELSE [ok |-> TRUE, exc |-> "", val |-> v, msg |-> <<>>]

\* itemNode.hasNonNull("id")
HasNonNullId(d) == "id" \in DOMAIN d /\ d["id"].k # "null"

JavaGetItem(a, o) ==
    LET cn == RequireStringArg(a, "containerName")
        id == RequireStringArg(a, "id")
    IN  IF ~cn.ok THEN NoStoreCall(JavaCatch("get_item", cn.exc, cn.msg))
        ELSE IF ~id.ok THEN NoStoreCall(JavaCatch("get_item", id.exc, id.msg))
        ELSE IF a.partitionKey.k = "null" THEN NoStoreCall(JavaNullKey("get_item"))
        ELSE LET r == StoreRead(cn.val, id.val, PkValue(a, id.val)) IN
             IF o = "fault"
             THEN Outcome(JavaStoreFault("get_item", FaultMsg), <<"read">>, Absent, Absent,
                          store, FALSE)
             ELSE IF r = Absent
             THEN Outcome(ItemNotFound, <<"read">>, Absent, Absent, store, FALSE)
             ELSE Outcome(JavaResult(r, FALSE), <<"read">>, r, Absent, store, FALSE)

JavaPutItem(a, o) ==
    LET cn == RequireStringArg(a, "containerName")
        item == RequireObjectArg(a, "item")
    IN  IF ~cn.ok THEN NoStoreCall(JavaCatch("put_item", cn.exc, cn.msg))
        ELSE IF ~item.ok THEN NoStoreCall(JavaCatch("put_item", item.exc, item.msg))
        ELSE LET gen == ~HasNonNullId(item.val.v)
                 itemNode == IF gen THEN WithId(item.val.v, Uuid(nuuid + 1)) ELSE item.val.v
             IN  IF o = "fault"
                 THEN Outcome(JavaStoreFault("put_item", FaultMsg), <<"upsert">>, Absent,
                              Absent, store, gen)
                 ELSE IF ~Storable(itemNode)
                 THEN Outcome(JavaStoreFault("put_item", BadRequestMsg), <<"upsert">>, Absent,
                              Absent, store, gen)
                 ELSE Outcome(JavaResult(Obj(itemNode), FALSE), <<"upsert">>, Absent,
                              Obj(itemNode), StoreUpsert(itemNode), gen)

\* update_item up to its point read: an outcome, or the call stays in flight
\* holding the document it read (cur) and the partition key it read it by
JavaUpdateRead(a, o) ==
    LET cn == RequireStringArg(a, "containerName")
        id == RequireStringArg(a, "id")
        updates == RequireObjectArg(a, "updates")
        Finished(out) == [pending |-> FALSE, out |-> out, pk |-> Absent, cur |-> EmptyObj]
    IN  IF ~cn.ok THEN Finished(NoStoreCall(JavaCatch("update_item", cn.exc, cn.msg)))
        ELSE IF ~id.ok THEN Finished(NoStoreCall(JavaCatch("update_item", id.exc, id.msg)))
        ELSE IF a.partitionKey.k = "null"
        THEN Finished(NoStoreCall(JavaNullKey("update_item")))
        ELSE IF ~updates.ok
        THEN Finished(NoStoreCall(JavaCatch("update_item", updates.exc, updates.msg)))
        ELSE LET pk == PkValue(a, id.val)
                 r == StoreRead(cn.val, id.val, pk)
             IN  IF o = "fault"
                 THEN Finished(Outcome(JavaStoreFault("update_item", FaultMsg), <<"read">>,
                                       Absent, Absent, store, FALSE))
                 ELSE IF r = Absent
                 THEN Finished(Outcome(ItemNotFound, <<"read">>, Absent, Absent, store, FALSE))
                 ELSE [pending |-> TRUE, out |-> NoStoreCall(ItemNotFound), pk |-> pk,
                       cur |-> r.v]

\* a replace guarded by the document being unchanged since the point read,
\* against which last-write-wins is tried
JavaUpdateReplaceIfMatch(c, o) ==
    LET current == DeepMerge(c.cur, c.args.updates.v)
        ops == <<"read", "replace">>
    IN  IF o = "fault"
        THEN Outcome(JavaStoreFault("update_item", FaultMsg), ops, Obj(c.cur), Absent,
                     store, FALSE)
        ELSE IF c.cur \notin Stored(store, c.args.id, c.pk)
        THEN Outcome(JavaStoreFault("update_item", "Precondition failed"), ops, Obj(c.cur),
                     Absent, store, FALSE)
        ELSE Outcome(JavaResult(Obj(current), FALSE), ops, Obj(c.cur), Obj(current),
                     StoreReplace(c.args.id, c.pk, current), FALSE)

\* update_item from its merge on: deepMerge into a copy, replaceItem, respond
JavaUpdateReplace(c, o) ==
    LET current == DeepMerge(c.cur, c.args.updates.v)
        ops == <<"read", "replace">>
    IN  IF o = "fault"
        THEN Outcome(JavaStoreFault("update_item", FaultMsg), ops, Obj(c.cur), Absent,
                     store, FALSE)
        ELSE IF Stored(store, c.args.id, c.pk) = {}
        THEN Outcome(ItemNotFound, ops, Obj(c.cur), Absent, store, FALSE)
        ELSE IF ~ReplaceOk(c.args.containerName, c.args.id, c.pk, current)
        THEN Outcome(JavaStoreFault("update_item", BadRequestMsg), ops, Obj(c.cur), Absent,
                     store, FALSE)
        ELSE Outcome(JavaResult(Obj(current), FALSE), ops, Obj(c.cur), Obj(current),
                     StoreReplace(c.args.id, c.pk, current), FALSE)

\* toIterable().forEach(list::add): the rows appended one by one
RECURSIVE Drain(_, _)
Drain(rows, list) ==
    IF rows = <<>> THEN list ELSE Drain(Tail(rows), Append(list, Head(rows)))

JavaQueryContainer(a, o, rows) ==
    LET cn == RequireStringArg(a, "containerName")
        query == RequireStringArg(a, "query")
    IN  IF ~cn.ok THEN NoStoreCall(JavaCatch("query_container", cn.exc, cn.msg))
        ELSE IF ~query.ok THEN NoStoreCall(JavaCatch("query_container", query.exc, query.msg))
        ELSE IF o = "fault"
        THEN Outcome(JavaStoreFault("query_container", FaultMsg), <<"query">>, Absent, Absent,
                     store, FALSE)
        ELSE Outcome(JavaResult(Rows(Drain(rows, <<>>)), FALSE), <<"query">>, Absent, Absent,
                     store, FALSE)

-----------------------------------------------------------------------------
(* The TypeScript server's tools.                                          *)

\* resolveContainer(containerName): containerName ?? defaultContainerId, which
\* must be truthy
ResolveContainer(cn) ==
    LET name == IF cn.k \in {"absent", "null"}
                THEN (IF "COSMOS_CONTAINER_ID" \in env THEN ContainerC ELSE Absent)
                ELSE cn
    IN  IF name.k = "absent" \/ name.v = ""
        THEN [ok |-> FALSE, val |-> name, msg |-> <<"Error: ", "No container specified">>]
        ELSE [ok |-> TRUE, val |-> name, msg |-> <<>>]

\* the catch block of an operation: { success: false, message: `Failed to ...: ${error}` }
TsFailure(what, error) == TsResult(Envelope(FALSE, <<what>> \o error, Absent))

\* container.item(id) carries no partition key: the read addresses the
\* document with that id and no partition key value
TsReadPk == Absent

TsGetItem(a, o) ==
    LET rc == ResolveContainer(a.containerName)
        what == "Failed to get item: "
    IN  IF ~rc.ok THEN NoStoreCall(TsFailure(what, rc.msg))
        ELSE LET r == StoreRead(rc.val, a.id, TsReadPk) IN
             IF o = "fault"
             THEN Outcome(TsFailure(what, <<"Error: ", FaultMsg>>), <<"read">>, Absent, Absent,
                          store, FALSE)
             ELSE IF r = Absent /\ o = "fault404"
             THEN Outcome(TsFailure(what, <<"Error: ", NotFoundMsg>>), <<"read">>, Absent,
                          Absent, store, FALSE)
             ELSE Outcome(TsResult(Envelope(TRUE, <<"Item retrieved successfully">>, r)),
                          <<"read">>, r, Absent, store, FALSE)

\* container.items.create(item): the client gives a body without id a
\* generated one; the store refuses an id its partition already holds
TsPutItem(a, o) ==
    LET rc == ResolveContainer(a.containerName)
        what == "Failed to put item: "
    IN  IF ~rc.ok THEN NoStoreCall(TsFailure(what, rc.msg))
        ELSE IF a.item.k # "o"
        THEN Outcome(TsFailure(what, <<"Error: ", BadRequestMsg>>), <<"create">>, Absent,
                     Absent, store, FALSE)
        ELSE LET gen == "id" \notin DOMAIN a.item.v
                 body == IF gen THEN WithId(a.item.v, Uuid(nuuid + 1)) ELSE a.item.v
             IN  IF o = "fault"
                 THEN Outcome(TsFailure(what, <<"Error: ", FaultMsg>>), <<"create">>, Absent,
                              Absent, store, gen)
                 ELSE IF rc.val # ContainerC \/ ~Storable(body)
                 THEN Outcome(TsFailure(what, <<"Error: ", BadRequestMsg>>), <<"create">>,
                              Absent, Absent, store, gen)
                 ELSE IF Stored(store, body["id"], PkOf(body)) # {}
                 THEN Outcome(TsFailure(what, <<"Error: ", ConflictMsg>>), <<"create">>,
                              Absent, Absent, store, gen)
                 ELSE Outcome(TsResult(Envelope(TRUE, <<"Item added successfully to container">>,
                                                Obj(body))),
                              <<"create">>, Absent, Obj(body), store \cup {body}, gen)

TsUpdateRead(a, o) ==
    LET rc == ResolveContainer(a.containerName)
        what == "Failed to update item: "
        Finished(out) == [pending |-> FALSE, out |-> out, pk |-> Absent, cur |-> EmptyObj]
    IN  IF ~rc.ok THEN Finished(NoStoreCall(TsFailure(what, rc.msg)))
        ELSE LET r == StoreRead(rc.val, a.id, TsReadPk) IN
             IF o = "fault"
             THEN Finished(Outcome(TsFailure(what, <<"Error: ", FaultMsg>>), <<"read">>,
                                   Absent, Absent, store, FALSE))
             ELSE IF r = Absent /\ o = "fault404"
             THEN Finished(Outcome(TsFailure(what, <<"Error: ", NotFoundMsg>>), <<"read">>,
                                   Absent, Absent, store, FALSE))
             ELSE IF r = Absent
             THEN Finished(Outcome(TsFailure(what, <<"Error: ", "Item not found">>),
                                   <<"read">>, Absent, Absent, store, FALSE))
             ELSE [pending |-> TRUE, out |-> NoStoreCall(TsResult(Absent)), pk |-> TsReadPk,
                   cur |-> r.v]

\* { ...resource, ...updates } then container.item(id).replace(updatedItem): the
\* replace addresses the document by the partition key value of the body
TsUpdateReplace(c, o) ==
    LET updates == IF c.args.updates.k = "o" THEN c.args.updates.v ELSE EmptyObj
        updatedItem == SpreadMerge(c.cur, updates)
        what == "Failed to update item: "
        ops == <<"read", "replace">>
        rc == ResolveContainer(c.args.containerName)
    IN  IF o = "fault"
        THEN Outcome(TsFailure(what, <<"Error: ", FaultMsg>>), ops, Obj(c.cur), Absent,
                     store, FALSE)
        ELSE IF ~ReplaceOk(rc.val, c.args.id, PkOf(updatedItem), updatedItem)
        THEN Outcome(TsFailure(what, <<"Error: ", BadRequestMsg>>), ops, Obj(c.cur), Absent,
                     store, FALSE)
        ELSE Outcome(TsResult(Envelope(TRUE, <<"Item updated successfully">>,
                                       Obj(updatedItem))),
                     ops, Obj(c.cur), Obj(updatedItem),
                     StoreReplace(c.args.id, PkOf(updatedItem), updatedItem), FALSE)

TsQueryContainer(a, o, rows) ==
    LET rc == ResolveContainer(a.containerName)
        what == "Failed to query container: "
    IN  IF ~rc.ok THEN NoStoreCall(TsFailure(what, rc.msg))
        ELSE IF o = "fault"
        THEN Outcome(TsFailure(what, <<"Error: ", FaultMsg>>), <<"query">>, Absent, Absent,
                     store, FALSE)
        ELSE IF rc.val # ContainerC \/ a.query \notin Queries
        THEN Outcome(TsFailure(what, <<"Error: ", BadRequestMsg>>), <<"query">>, Absent,
                     Absent, store, FALSE)
        ELSE Outcome(TsResult(Envelope(TRUE, <<"Query executed successfully">>, Rows(rows))),
                     <<"query">>, Absent, Absent, store, FALSE)

-----------------------------------------------------------------------------
(* Startup.                                                                *)

\* a faulty check, against which the fatal configuration errors are tried:
\* only the endpoint is looked at
RequiredEnvEndpointOnly(i) == {"COSMOSDB_URI"}

\* System.exit(1) / process.exit(1)
ExitStatus == 1

\* the variables whose absence is fatal
RequiredEnv(i) ==
    IF i = "java" THEN {"COSMOSDB_URI", "COSMOS_DATABASE_ID"}
    ELSE {"COSMOSDB_URI", "COSMOSDB_KEY", "COSMOS_DATABASE_ID"}

\* the configuration check: exit(1) when a required variable is missing
ConfigCheck ==
    /\ phase = "boot"
    /\ phase' = IF RequiredEnv(impl) \subseteq env THEN "checked" ELSE "exited"
    /\ UNCHANGED <<impl, pkPath, env, client, store, inflight, last, ncalls, nuuid>>
    /\ UNCHANGED mvars

\* the store client is created and the tools become callable
Connect ==
    /\ phase = "checked"
    /\ client' = TRUE
    /\ phase' = "serving"
    /\ UNCHANGED <<impl, pkPath, env, store, inflight, last, ncalls, nuuid>>
    /\ UNCHANGED mvars

-----------------------------------------------------------------------------
(* Tool calls.                                                             *)

\* the record of a returned call: its arguments, how the store behaved during
\* its last store call, its result and what it did to the store; over is the
\* document an update_item's replace met in the store under the key of the
\* document it had read (Absent for every other call)
Returned(seq, a, o, out) ==
    [seq |-> seq, op |-> a.op, args |-> a, mode |-> o, res |-> out.res, ops |-> out.ops,
     read |-> out.read, written |-> out.written, over |-> Absent]

NoCall == Returned(0, NoArgs, "ok", NoStoreCall(TsResult(Absent)))

GetItem(a, o) ==
    /\ phase = "serving" /\ a.op = "get_item"
    /\ LET out == IF impl = "java" THEN JavaGetItem(a, o) ELSE TsGetItem(a, o)
       IN  last' = Returned(ncalls + 1, a, o, out)
    /\ ncalls' = ncalls + 1
    /\ UNCHANGED <<impl, pkPath, env, phase, client, store, inflight, nuuid>>
    /\ UNCHANGED mvars

PutItem(a, o) ==
    /\ phase = "serving" /\ a.op = "put_item"
    /\ LET out == IF impl = "java" THEN JavaPutItem(a, o) ELSE TsPutItem(a, o)
       IN  /\ out.gen => nuuid < MaxUuid
           /\ last' = Returned(ncalls + 1, a, o, out)
           /\ store' = out.store
           /\ nuuid' = IF out.gen THEN nuuid + 1 ELSE nuuid
    /\ ncalls' = ncalls + 1
    /\ UNCHANGED <<impl, pkPath, env, phase, client, inflight>>
    /\ UNCHANGED mvars

\* update_item until its point read has returned
UpdateRead(a, o) ==
    /\ phase = "serving" /\ a.op = "update_item"
    /\ LET r == IF impl = "java" THEN JavaUpdateRead(a, o) ELSE TsUpdateRead(a, o)
       IN  IF r.pending
           THEN /\ inflight' = inflight \cup
                        {[seq |-> ncalls + 1, args |-> a, pk |-> r.pk, cur |-> r.cur]}
                /\ last' = last
           ELSE /\ inflight' = inflight
                /\ last' = Returned(ncalls + 1, a, o, r.out)
    /\ ncalls' = ncalls + 1
    /\ UNCHANGED <<impl, pkPath, env, phase, client, store, nuuid>>
    /\ UNCHANGED mvars

\* update_item from its merge to its return
UpdateReplace(c, o) ==
    /\ phase = "serving" /\ c \in inflight
    /\ LET out == IF impl = "java" THEN JavaUpdateReplace(c, o) ELSE TsUpdateReplace(c, o)
           met == Stored(store, c.cur["id"], PkOf(c.cur))
       IN  /\ last' = [Returned(c.seq, c.args, o, out) EXCEPT
                          !.over = IF met = {} THEN Absent ELSE Obj(CHOOSE d \in met : TRUE)]
           /\ store' = out.store
    /\ inflight' = inflight \ {c}
    /\ UNCHANGED <<impl, pkPath, env, phase, client, ncalls, nuuid>>
    /\ UNCHANGED mvars

QueryContainer(a, o) ==
    /\ phase = "serving" /\ a.op = "query_container"
    /\ \E rows \in QueryRows(a.query) :
          LET out == IF impl = "java" THEN JavaQueryContainer(a, o, rows)
                     ELSE TsQueryContainer(a, o, rows)
          IN  last' = Returned(ncalls + 1, a, o, out)
    /\ ncalls' = ncalls + 1
    /\ UNCHANGED <<impl, pkPath, env, phase, client, store, inflight, nuuid>>
    /\ UNCHANGED mvars

-----------------------------------------------------------------------------
(* The merge laws: the server's merge applied to a document and two        *)
(* patches, one after the other and combined.                              *)

MLeaves == {Str(ScalarNames[i]) : i \in 1..MaxScalar} \cup {Arr(<<"1">>)}
MValues == MLeaves \cup {Obj(f) : f \in PartialFns({"a", "b"}, MLeaves)}
MDocs == PartialFns({"nested"}, MValues)

MergeP ==
    /\ mpc = 0
    /\ mDP' = Merge(impl, mD, mP)
    /\ mpc' = 1
    /\ UNCHANGED <<mD, mP, mQ, mDPQ, mPQ, mAll>> /\ UNCHANGED sysvars

MergeQ ==
    /\ mpc = 1
    /\ mDPQ' = Merge(impl, mDP, mQ)
    /\ mpc' = 2
    /\ UNCHANGED <<mD, mP, mQ, mDP, mPQ, mAll>> /\ UNCHANGED sysvars

CombinePQ ==
    /\ mpc = 2
    /\ mPQ' = Merge(impl, mP, mQ)
    /\ mpc' = 3
    /\ UNCHANGED <<mD, mP, mQ, mDP, mDPQ, mAll>> /\ UNCHANGED sysvars

MergeCombined ==
    /\ mpc = 3
    /\ mAll' = Merge(impl, mD, mPQ)
    /\ mpc' = 4
    /\ UNCHANGED <<mD, mP, mQ, mDP, mDPQ, mPQ>> /\ UNCHANGED sysvars

-----------------------------------------------------------------------------
(* Specifications.                                                         *)

InitStores == {s \in SUBSET SeedDocs : Cardinality(s) <= MaxSeed /\ KeysUnique(s)}

MergeIdle ==
    /\ mD = EmptyObj /\ mP = EmptyObj /\ mQ = EmptyObj
    /\ mDP = EmptyObj /\ mDPQ = EmptyObj /\ mPQ = EmptyObj /\ mAll = EmptyObj
    /\ mpc = 0

InitWith(envs) ==
    /\ impl \in Impls
    /\ pkPath \in PkPaths
    /\ env \in envs
    /\ phase = "boot"
    /\ client = FALSE
    /\ store \in InitStores
    /\ inflight = {}
    /\ last = NoCall
    /\ ncalls = 0
    /\ nuuid = 0
    /\ MergeIdle

\* a fully configured server
Init == InitWith({EnvVars})

\* a server under any configuration that lacks at most one variable
InitAny == InitWith(EnvChoices)

\* a server taking well-formed calls, which may overlap
Next ==
    \/ ConfigCheck
    \/ Connect
    \/ \E a \in ValidGets, o \in ReadModes : ncalls < MaxCalls /\ GetItem(a, o)
    \/ \E a \in ValidPuts, o \in WriteModes : ncalls < MaxCalls /\ PutItem(a, o)
    \/ \E a \in ValidUpdates, o \in ReadModes : ncalls < MaxCalls /\ UpdateRead(a, o)
    \/ \E c \in inflight, o \in WriteModes : UpdateReplace(c, o)
    \/ \E a \in ValidQueries, o \in WriteModes : ncalls < MaxCalls /\ QueryContainer(a, o)

Spec == Init /\ [][Next]_vars

\* a server taking calls with arbitrary arguments
NextAny ==
    \/ ConfigCheck
    \/ Connect
    \/ \E a \in AnyGets, o \in ReadModes : ncalls < MaxAnyCalls /\ GetItem(a, o)
    \/ \E a \in AnyPuts, o \in WriteModes : ncalls < MaxAnyCalls /\ PutItem(a, o)
    \/ \E a \in AnyUpdates, o \in ReadModes : ncalls < MaxAnyCalls /\ UpdateRead(a, o)
    \/ \E c \in inflight, o \in WriteModes : UpdateReplace(c, o)
    \/ \E a \in AnyQueries, o \in WriteModes : ncalls < MaxAnyCalls /\ QueryContainer(a, o)

SpecAny == InitAny /\ [][NextAny]_vars

MergeInit ==
    /\ impl \in Impls
    /\ pkPath = "id" /\ env = EnvVars /\ phase = "boot" /\ client = FALSE
    /\ store = {} /\ inflight = {} /\ last = NoCall /\ ncalls = 0 /\ nuuid = 0
    /\ mD \in MDocs /\ mP \in MDocs /\ mQ \in MDocs
    /\ mDP = EmptyObj /\ mDPQ = EmptyObj /\ mPQ = EmptyObj /\ mAll = EmptyObj
    /\ mpc = 0

MergeNext == MergeP \/ MergeQ \/ CombinePQ \/ MergeCombined

MergeSpec == MergeInit /\ [][MergeNext]_vars

-----------------------------------------------------------------------------
(* Properties.                                                             *)

\* the document a result carries: the payload itself, or the item member of
\* the TypeScript envelope
ReturnedDoc(res) == IF res.payload.k = "env" THEN res.payload.v.data ELSE res.payload

\* the call that returned last is an update_item whose replace the store accepted
UpdateSucceeded == last.op = "update_item" /\ last.written # Absent

\* merge(D, P) as the specification words it
RECURSIVE SpecifiedMerge(_, _)
SpecifiedMerge(d, p) ==
    [f \in DOMAIN d \cup DOMAIN p |->
        IF f \notin DOMAIN p THEN d[f]
        ELSE IF f \in DOMAIN d /\ d[f].k = "o" /\ p[f].k = "o"
             THEN Obj(SpecifiedMerge(d[f].v, p[f].v))
             ELSE p[f]]

\* C1: a successful update_item writes back and returns merge(D, P), the
\* recursive merge of the patch into the document it read: nested objects are
\* merged field by field, anything else is replaced by the patch's value.
C1_UpdateWritesDeepMerge ==
    UpdateSucceeded =>
        /\ last.written = Obj(SpecifiedMerge(last.read.v, last.args.updates.v))
        /\ ReturnedDoc(last.res) = last.written
        /\ last.written.v \in store

\* C2: applying P then Q equals one application of the combined patch
\* merge(P, Q), for all documents and patches.
C2_MergeAssociative == mpc = 4 => mDPQ = mAll

\* some path holds an object in d and in q but a non-object in p
RECURSIVE KindClash(_, _, _)
KindClash(d, p, q) ==
    \E f \in DOMAIN d \cap DOMAIN p \cap DOMAIN q :
        /\ d[f].k = "o" /\ q[f].k = "o"
        /\ (p[f].k # "o" \/ KindClash(d[f].v, p[f].v, q[f].v))

\* r holds q's value at every leaf path of q
RECURSIVE LeavesWin(_, _)
LeavesWin(q, r) ==
    \A f \in DOMAIN q :
        /\ f \in DOMAIN r
        /\ IF q[f].k = "o" THEN r[f].k = "o" /\ LeavesWin(q[f].v, r[f].v) ELSE r[f] = q[f]

\* C2 (amended): Q's leaf values win in the sequential and in the combined
\* merge, and the two are equal unless some path holds an object in D and in Q
\* but a scalar or array in P.
C2_MergeAssociativeWithoutKindClash ==
    mpc = 4 =>
        /\ LeavesWin(mQ, mDPQ) /\ LeavesWin(mQ, mPQ) /\ LeavesWin(mQ, mAll)
        /\ ~KindClash(mD, mP, mQ) => mDPQ = mAll

\* C2 witness: P and Q give the field values of different kinds, D holds an
\* object there, and the merges have been computed by the deep merge
C2_Witness ==
    /\ mpc = 4 /\ impl = "java"
    /\ "nested" \in DOMAIN mD /\ "nested" \in DOMAIN mP /\ "nested" \in DOMAIN mQ
    /\ mD["nested"].k = "o" /\ mD["nested"].v # EmptyObj
    /\ mP["nested"].k = "o" /\ mP["nested"].v # EmptyObj
    /\ mQ["nested"].k = "a"
    /\ ~KindClash(mD, mP, mQ)

\* C3: merge(D, {}) = D, and an update_item with an empty updates object writes
\* back and returns a document equal to the one it read.
C3_EmptyPatchIsIdentity ==
    /\ \A d \in MDocs \cup SeedDocs : Merge(impl, d, EmptyObj) = d
    /\ (UpdateSucceeded /\ last.args.updates = Obj(EmptyObj)) =>
          /\ last.written = last.read
          /\ ReturnedDoc(last.res) = last.read
          /\ last.read.v \in store

\* C3 witness: the Java server has replaced a document that has a nested
\* object under an empty patch
C3_Witness ==
    /\ UpdateSucceeded /\ last.args.updates = Obj(EmptyObj)
    /\ impl = "java" /\ "nested" \in DOMAIN last.read.v

\* every stored document is still stored, under its id and partition key, with
\* at least the field names it had
FieldNamesKept ==
    \A d \in store : \E e \in store' :
        e["id"] = d["id"] /\ PkOf(e) = PkOf(d) /\ DOMAIN d \subseteq DOMAIN e

\* C4: no sequence of update_item calls makes the set of field names of a
\* stored document shrink; stated for the runs of two update_item calls and
\* no other call, at the replace of the second to finish.
C4_StoredFieldNamesNeverShrink ==
    [][(/\ ncalls = 2 /\ last.op = "update_item"
        /\ \E c \in inflight : c.seq # last.seq /\ inflight' = inflight \ {c})
          => FieldNamesKept]_vars

\* C4 (amended): every field name of D is a field name of merge(D, P), and an
\* update_item call never writes back a document that lacks a field name of
\* the document it read.
C4_MergeKeepsFieldNames ==
    /\ \A d \in SeedDocs, p \in Patches : DOMAIN d \subseteq DOMAIN Merge(impl, d, p)
    /\ UpdateSucceeded => DOMAIN last.read.v \subseteq DOMAIN last.written.v

\* C4 witness: the Java server has replaced a document under a patch that
\* overwrites an object by a scalar
C4_Witness ==
    /\ UpdateSucceeded /\ impl = "java"
    /\ last.args.updates = Obj([nested |-> Str("1")])
    /\ "nested" \in DOMAIN last.read.v /\ last.read.v["nested"].k = "o"

\* the result reports success: it is not flagged as an error and, when it is
\* a TypeScript envelope, its success member is true
IsSuccess(res) == res.isError # "true" /\ (res.payload.k = "env" => res.payload.v.success)

\* the store holds no document with this id, under any partition key
NoDocWithId(id) == \A d \in store : d["id"] # id

\* the store worked during the call's point read and reported what it found
ReadWorked == last.mode \in {"empty", "fault404"}

\* C5: get_item with valid arguments on an id the store holds no document for
\* returns isError = true with payload exactly "Error: Item not found",
\* however the store reports the absence.
C5_GetMissingIsItemNotFound ==
    (last.op = "get_item" /\ ReadWorked /\ NoDocWithId(last.args.id)) =>
        last.res = ItemNotFound

\* C6: update_item on an id the store holds no document for returns the same
\* not-found error result as get_item and issues no replace or other write.
C6_UpdateMissingIsItemNotFound ==
    (last.op = "update_item" /\ ReadWorked /\ NoDocWithId(last.args.id)) =>
        /\ last.res = ItemNotFound
        /\ last.ops = <<"read">>
        /\ last.written = Absent

BadString(v) == v.k # "s" \/ IsBlank(v)
BadObject(v) == v.k # "o"

\* a required argument is absent, of the wrong type or blank
InvalidArgs(a) ==
    CASE a.op = "get_item" -> BadString(a.containerName) \/ BadString(a.id)
      [] a.op = "put_item" -> BadString(a.containerName) \/ BadObject(a.item)
      [] a.op = "update_item" ->
            BadString(a.containerName) \/ BadString(a.id) \/ BadObject(a.updates)
      [] a.op = "query_container" -> BadString(a.containerName) \/ BadString(a.query)
      [] OTHER -> FALSE

\* C7: a call with a required argument absent, of the wrong type or blank
\* returns an error result and issues no store call.
C7_InvalidArgsIssueNoStoreCall ==
    InvalidArgs(last.args) => (last.res.isError = "true" /\ last.ops = <<>>)

\* C8: put_item succeeds whether or not a document with the item's id exists;
\* the stored document is then the item.
C8_PutInsertsOrReplaces ==
    (last.op = "put_item" /\ last.mode = "ok") =>
        /\ IsSuccess(last.res)
        /\ last.written # Absent
        /\ ReturnedDoc(last.res) = last.written
        /\ last.written.v \in store
        /\ \A f \in DOMAIN last.args.item.v : last.written.v[f] = last.args.item.v[f]

GeneratedIds == {Uuid(n) : n \in 1..nuuid}

\* put_item of an item without id returned a document with a non-blank id
PutGeneratesId ==
    (last.op = "put_item" /\ "id" \notin DOMAIN last.args.item.v /\ IsSuccess(last.res)) =>
        /\ ReturnedDoc(last.res).k = "o"
        /\ "id" \in DOMAIN ReturnedDoc(last.res).v
        /\ ReturnedDoc(last.res).v["id"] \in GeneratedIds
        /\ ~BadString(ReturnedDoc(last.res).v["id"])

\* the call that returned last is a get_item, by a generated id and no explicit
\* partition key, of the stored document d, and the store worked
GetOfGenerated(d) ==
    /\ last.op = "get_item" /\ ReadWorked
    /\ last.args.id \in GeneratedIds /\ last.args.partitionKey = Absent
    /\ d \in store /\ d["id"] = last.args.id

ReadByDefault(d) == IF impl = "java" THEN PkOf(d) = d["id"] ELSE PkOf(d) = Absent

C10_QueryReturnsRows ==
    (last.op = "query_container" /\ last.mode = "ok") =>
        /\ last.res.isError = "false"
        /\ last.res.payload \in {Rows(r) : r \in QueryRows(last.args.query)}

\* the call that returned last failed: it did not read the document it was
\* asked for, did not write the one it was asked to, or its query did not run
CallFailed ==
    CASE last.op = "get_item" -> last.read = Absent
      [] last.op \in {"put_item", "update_item"} -> last.written = Absent
      [] last.op = "query_container" -> last.mode = "fault" \/ InvalidArgs(last.args)
      [] OTHER -> FALSE

\* the payload is an error description: a text that starts with "Error: "
IsErrorText(payload) ==
    /\ payload.k = "text" /\ payload.v # <<>>
    /\ Head(payload.v) \in {"Error: ", "Error: Item not found"}

\* C11: for every returned call, isError is true exactly when the call failed,
\* and then the payload is an error description; a failed call never returns
\* isError false or absent, a successful call never isError = true.
C11_ErrorFlagIffFailed ==
    last.seq > 0 =>
        /\ CallFailed => (last.res.isError = "true" /\ IsErrorText(last.res.payload))
        /\ ~CallFailed => last.res.isError # "true"

\* a tool result as the protocol carries it: a text content, never a thrown
\* exception in its place
WellFormed(res) ==
    /\ res.isError \in {"true", "false", "absent"}
    /\ res.payload.k \in {"text", "o", "rows", "env"}

\* C12: whatever the arguments and whatever the store does, every call that
\* has returned returned a well-formed tool result and is no longer in
\* flight, and the server that took it is still serving.
C12_NoFaultEscapes ==
    /\ last.seq > 0 =>
          /\ WellFormed(last.res)
          /\ \A c \in inflight : c.seq # last.seq
    /\ ncalls > 0 => phase = "serving"

\* C12 witness: the Java server has answered a get_item whose partitionKey
\* was null, and an update_item whose replace the store failed
C12_Witness ==
    /\ impl = "java" /\ last.seq > 0
    /\ \/ last.op = "get_item" /\ last.args.partitionKey = Null /\ last.ops = <<>>
       \/ last.op = "update_item" /\ last.mode = "fault" /\ last.ops = <<"read", "replace">>
    /\ last.res.isError = "true"

\* the call that returned last is an update_item whose replace reached a
\* working store and met there a document other than the one it had read,
\* while its own merge leaves the partition key value alone
ReplacedChangedDocument ==
    /\ last.op = "update_item" /\ last.ops = <<"read", "replace">> /\ last.mode = "ok"
    /\ last.over # Absent /\ last.over # last.read
    /\ PkOf(Merge(impl, last.read.v, last.args.updates.v)) = PkOf(last.read.v)

\* C13: the replace of update_item is unconditional: when the document has
\* been replaced by another call since this call read it, this call still
\* succeeds, and the stored document becomes the merge of this call's patch
\* into the copy it read, not into the document the other call wrote.
C13_LastWriteWins ==
    ReplacedChangedDocument =>
        /\ IsSuccess(last.res)
        /\ last.written = Obj(Merge(impl, last.read.v, last.args.updates.v))
        /\ ReturnedDoc(last.res) = last.written
        /\ Stored(store, last.read.v["id"], PkOf(last.read.v)) = {last.written.v}

\* C13 witness: two update_item calls read the same document, which had no
\* field nested; one wrote nested, then the other replaced that document by
\* its own merge, which lacks nested
C13_Witness ==
    /\ ReplacedChangedDocument /\ IsSuccess(last.res)
    /\ ncalls = 2 /\ inflight = {}
    /\ "nested" \notin DOMAIN last.read.v
    /\ "nested" \in DOMAIN last.over.v
    /\ "nested" \notin DOMAIN last.written.v
    /\ last.written.v \in store

\* the identifiers no server can do without: the endpoint and the database
MinimumConfig == {"COSMOSDB_URI", "COSMOS_DATABASE_ID"}

\* C14: when the endpoint or the database identifier is missing at startup,
\* the configuration check ends the process with a non-zero status, no store
\* client is ever created and no tool call is ever taken; a tool call is
\* taken only by a server whose check has passed and whose client exists.
C14_ConfigErrorsAreFatal ==
    /\ ~(MinimumConfig \subseteq env) =>
          /\ phase \in {"boot", "exited"}
          /\ client = FALSE
          /\ ncalls = 0 /\ last = NoCall /\ inflight = {}
    /\ phase = "exited" => (ExitStatus # 0 /\ ~(RequiredEnv(impl) \subseteq env))
    /\ (phase = "serving" \/ ncalls > 0) =>
          (client = TRUE /\ MinimumConfig \subseteq env /\ RequiredEnv(impl) \subseteq env)
    /\ client = TRUE => phase = "serving"

\* C14 witness: a server started without its database identifier has exited
C14_Witness ==
    /\ phase = "exited" /\ "COSMOS_DATABASE_ID" \notin env
    /\ client = FALSE /\ ncalls = 0

\* the partition key value the call is to address the store by: the
\* partitionKey argument when the caller gave one, otherwise the id
AddressedPk(a) == IF a.partitionKey = Absent THEN a.id ELSE a.partitionKey

\* the document stored under the call's id and that partition key value
Addressed(a) == StoreRead(ContainerC, a.id, AddressedPk(a))

\* C15: get_item and update_item read the document stored under (id,
\* partition key value), the partition key value being the partitionKey
\* argument when given and otherwise the id; update_item replaces the document
\* stored under that same key, which is the key of the document it read.
C15_AddressedByIdAndPartitionKey ==
    /\ (last.op = "get_item" /\ ReadWorked) => last.read = Addressed(last.args)
    /\ (last.op = "update_item" /\ last.ops = <<"read">> /\ ReadWorked) =>
          Addressed(last.args) = Absent
    /\ (last.op = "update_item" /\ last.ops = <<"read", "replace">>) =>
          /\ last.read.v["id"] = last.args.id
          /\ PkOf(last.read.v) = AddressedPk(last.args)
          /\ last.written # Absent => Addressed(last.args) = last.written

====
